---- MODULE Spec2Model ----
(***************************************************************************)
(* Failover load tester (archive/test-scripts/failover_load_test.py).      *)
(*                                                                         *)
(* FailoverMetrics is the shared metrics store, FailoverLoadTester the     *)
(* driver.  The driver is an asyncio program: run_load_test, the worker    *)
(* coroutines and monitor_progress all run on one event loop, so a         *)
(* coroutine gives up control only at an await.  Each action below is one  *)
(* stretch of code between two awaits.  write_info_request is the only     *)
(* code that runs off the loop (run_in_executor): it is an action of its   *)
(* own, and it touches no metrics field.                                   *)
(***************************************************************************)
EXTENDS Integers, Naturals, Sequences, FiniteSets, TLC

\* ---------------------------------------------------------------- bounds
MaxWorkers == 2
MaxAttempts == 3
MaxTicks == 1
MaxDuration == 0
MaxCruises == 1

\* One step of the modelled wall clock, in seconds.  Two records taken
\* between two steps read the same datetime.now().
TickSeconds == 60

\* ------------------------------------------------------ program constants
SLA_TARGET_SECONDS == 120

\* create_engine(pool_size=num_workers + 5, max_overflow=10)
POOL_SIZE_EXTRA == 5
MAX_OVERFLOW == 10

\* The target write rate main() asks for.
WRITES_PER_SECOND == 50

\* The number of records monitor_progress rates, write_attempts[-50:].
RECENT_WINDOW == 50

\* Python's None, for the optional datetime / float fields.
None == -1

\* The error field is a string or None; NoError stands for None.
NoError == "None"
ErrorMessages == {"", "connection refused"}

WorkerIds == 0 .. (MaxWorkers - 1)

\* The values of duration_ms that a write reports, in microseconds
\* (thousandths of the millisecond the field is named after).
Durations == 0 .. MaxDuration
ClockEnd == MaxTicks * TickSeconds

VARIABLES
    lines,                \* fix-indentation: the lines read from the script
    output,               \* fix-indentation: the lines to write back
    line_index,           \* fix-indentation: number of lines processed
    inside_main,          \* fix-indentation: inside_main
    indent_stack,         \* fix-indentation: indent_stack
    open_sessions,        \* number of Session objects that are open
    write_delay,          \* FailoverLoadTester.write_delay, a fraction of a second
    progress,             \* the last progress line monitor_progress printed
    executor_threads,     \* size of the event loop's default executor
    executor_queue,       \* workers whose write waits for an executor thread
    latencies,            \* the duration_ms values the database exhibits
    num_workers,          \* FailoverLoadTester.num_workers
    cruise_ids,           \* FailoverLoadTester.cruise_ids (a set of keys)
    write_attempts,       \* FailoverMetrics.write_attempts
    successful_writes,    \* FailoverMetrics.successful_writes
    failed_writes,        \* FailoverMetrics.failed_writes
    start_time,           \* FailoverMetrics.start_time
    first_failure_time,   \* FailoverMetrics.first_failure_time
    last_failure_time,    \* FailoverMetrics.last_failure_time
    first_recovery_time,  \* FailoverMetrics.first_recovery_time
    test_running,         \* FailoverMetrics.test_running
    main_pc,              \* position of main() / run_load_test
    worker_pc,            \* position of each worker coroutine
    worker_result,        \* pending result of run_in_executor, per worker
    worker_wake,          \* clock reading at which asyncio.sleep was entered
    monitor_pc,           \* position of monitor_progress
    summary,              \* the dict print_summary got from get_summary
    verdict,              \* which SLA branch print_summary printed
    export_status,        \* outcome of export_results
    exported,             \* the rows export_results wrote to the CSV file
    stop_reason,          \* how the sleep of run_load_test ended
    now,                  \* the wall clock (datetime.now()), in seconds
    started,              \* history: attempts started, per worker
    attempt_ids,          \* history: <<worker, n>> of each log record
    failure_assigns,      \* history: assignments of first_failure_time
    recovery_assigns,     \* history: assignments of first_recovery_time
    in_flight_at_stop     \* history: attempts in flight when the run stopped

metrics_vars == <<write_attempts, successful_writes, failed_writes,
                  first_failure_time, last_failure_time, first_recovery_time>>
history_vars == <<started, attempt_ids, failure_assigns, recovery_assigns,
                  in_flight_at_stop>>
report_vars == <<summary, verdict, export_status, exported>>
fixer_vars == <<lines, output, line_index, inside_main, indent_stack>>
tester_vars == <<open_sessions, write_delay, progress, executor_threads,
                 executor_queue, latencies, num_workers, cruise_ids,
                 metrics_vars, start_time, test_running, main_pc, worker_pc,
                 worker_result, worker_wake, monitor_pc, report_vars,
                 stop_reason, now, history_vars>>
vars == <<lines, output, line_index, inside_main, indent_stack, open_sessions, write_delay, progress, executor_threads, executor_queue, latencies, num_workers, cruise_ids, write_attempts, successful_writes,
          failed_writes, start_time, first_failure_time, last_failure_time,
          first_recovery_time, test_running, main_pc, worker_pc,
          worker_result, worker_wake, monitor_pc, summary, verdict,
          export_status, exported,
          stop_reason, now, started, attempt_ids, failure_assigns,
          recovery_assigns, in_flight_at_stop>>

\* ------------------------------------------------------------- helpers
NoResult == [success |-> FALSE, duration_ms |-> None, error |-> NoError]
NoSummary == [total_attempts |-> None]
NoProgress == [total |-> None]
NoDelay == [num |-> None, den |-> None]

RECURSIVE SumSeq(_)
SumSeq(s) ==
    IF s = <<>> THEN 0 ELSE Head(s) + SumSeq(Tail(s))

\* Mutant: the durations of all attempts, failed ones included.
SuccessfulDurations_All(log) == [i \in 1 .. Len(log) |-> log[i].duration_ms]

\* [w['duration_ms'] for w in self.write_attempts if w['success']]
RECURSIVE SuccessfulDurations(_)
SuccessfulDurations(log) ==
    IF log = <<>> THEN <<>>
    ELSE IF Head(log).success
         THEN <<Head(log).duration_ms>> \o SuccessfulDurations(Tail(log))
         ELSE SuccessfulDurations(Tail(log))

\* sorted(data), as statistics.median sorts its argument.
RECURSIVE InsertSorted(_, _)
InsertSorted(x, s) ==
    IF s = <<>> THEN <<x>>
    ELSE IF x <= Head(s) THEN <<x>> \o s
         ELSE <<Head(s)>> \o InsertSorted(x, Tail(s))

RECURSIVE Sorted(_)
Sorted(s) ==
    IF s = <<>> THEN <<>> ELSE InsertSorted(Head(s), Sorted(Tail(s)))

\* statistics.mean of durations in microseconds, in hundredths of a
\* microsecond, rounded down.
Mean(data) == (SumSeq(data) * 100) \div Len(data)

\* statistics.median of durations in microseconds, in hundredths of a
\* microsecond: the middle element, or the mean of the two middle elements.
Median(data) ==
    LET d == Sorted(data)
        n == Len(d)
    IN IF n % 2 = 1 THEN d[(n + 1) \div 2] * 100
       ELSE (d[n \div 2] + d[n \div 2 + 1]) * 50

\* ------------------------------------------------------ FailoverMetrics
\* Mutant: the first-failure guard is dropped, every failure overwrites.
FirstFailureUnset_Always(fft) == TRUE

\* line 70: "if not self.first_failure_time" (a datetime is always truthy)
FirstFailureUnset(fft) == fft = None

\* Mutant: recovery is detected without a preceding failure.
RecoveryPending_NoFailure(fft, frt) == frt = None

\* Mutant: every success after a failure overwrites the recovery time.
RecoveryPending_Overwrite(fft, frt) == fft # None

\* line 65: "if self.first_failure_time and not self.first_recovery_time"
RecoveryPending(fft, frt) == fft # None /\ frt = None

\* The four-key dict appended at lines 56-61.
AttemptRecord(timestamp, success, duration_ms, error) ==
    [timestamp |-> timestamp, success |-> success,
     duration_ms |-> duration_ms, error |-> error]

\* Mutant: the record is inserted at the front of the list.
LogAfter_Prepend(log, record) == <<record>> \o log

\* self.write_attempts.append(...), line 56.
LogAfter(log, record) == Append(log, record)

\* Mutant: the failure counter is bumped on every record.
FailureCountAfter_EveryRecord(n, success) == n + 1

\* Lines 64 and 69: the counters after one record.
SuccessCountAfter(n, success) == IF success THEN n + 1 ELSE n

FailureCountAfter(n, success) == IF success THEN n ELSE n + 1

\* FailoverMetrics.record_write_attempt: the whole method, run on the
\* event loop with no await inside it.
record_write_attempt(success, duration_ms, error) ==
    LET timestamp == now
    IN /\ write_attempts' = LogAfter(write_attempts,
                AttemptRecord(timestamp, success, duration_ms, error))
       /\ successful_writes' = SuccessCountAfter(successful_writes, success)
       /\ failed_writes' = FailureCountAfter(failed_writes, success)
       /\ first_recovery_time' =
            IF success /\ RecoveryPending(first_failure_time, first_recovery_time)
            THEN timestamp ELSE first_recovery_time
       /\ recovery_assigns' =
            IF success /\ RecoveryPending(first_failure_time, first_recovery_time)
            THEN recovery_assigns + 1 ELSE recovery_assigns
       /\ first_failure_time' =
            IF ~success /\ FirstFailureUnset(first_failure_time)
            THEN timestamp ELSE first_failure_time
       /\ failure_assigns' =
            IF ~success /\ FirstFailureUnset(first_failure_time)
            THEN failure_assigns + 1 ELSE failure_assigns
       /\ last_failure_time' = IF success THEN last_failure_time ELSE timestamp

\* Mutant: the subtraction is reversed.
get_failover_duration_seconds_Reversed(fft, frt) ==
    IF fft # None /\ frt # None THEN fft - frt ELSE None

\* Mutant: 0 is returned where there is no failover window.
get_failover_duration_seconds_Zero(fft, frt) ==
    IF fft # None /\ frt # None THEN frt - fft ELSE 0

\* FailoverMetrics.get_failover_duration_seconds
get_failover_duration_seconds(fft, frt) ==
    IF fft # None /\ frt # None THEN frt - fft ELSE None

\* Mutant: the rate is computed without the guard on an empty log; the
\* ZeroDivisionError it raises is shown as None.
SuccessRate_Unguarded(successes, total) ==
    IF total # 0 THEN (successes * 10000) \div total ELSE None

\* line 94: the success rate, in hundredths of a percent.
SuccessRate(successes, total) ==
    IF total # 0 THEN (successes * 10000) \div total ELSE 0

\* FailoverMetrics.get_summary
get_summary ==
    LET successful_durations == SuccessfulDurations(write_attempts)
    IN [total_attempts |-> Len(write_attempts),
        successful_writes |-> successful_writes,
        failed_writes |-> failed_writes,
        success_rate |-> SuccessRate(successful_writes, Len(write_attempts)),
        test_start_time |-> start_time,
        first_failure_time |-> first_failure_time,
        first_recovery_time |-> first_recovery_time,
        failover_duration_seconds |->
            get_failover_duration_seconds(first_failure_time,
                                          first_recovery_time),
        avg_write_duration_ms |->
            IF successful_durations # <<>> THEN Mean(successful_durations)
            ELSE None,
        median_write_duration_ms |->
            IF successful_durations # <<>> THEN Median(successful_durations)
            ELSE None]

\* ---------------------------------------------------- FailoverLoadTester
\* line 305: "if summary['failover_duration_seconds']": the truth value of
\* an optional float, false for None and for 0.0.
FloatIsTruthy(x) == x # None /\ x # 0

\* Lines 305-320 of print_summary: the branch that is printed.
SlaVerdict(failover_duration_seconds) ==
    IF FloatIsTruthy(failover_duration_seconds)
    THEN IF failover_duration_seconds < SLA_TARGET_SECONDS
         THEN "PASSED" ELSE "EXCEEDED"
    ELSE "NO FAILOVER DETECTED"

\* Mutant: the summary does not wait for the tasks.
AllTasksDone_NoWait(wpc, mpc) == TRUE

\* asyncio.gather(*workers): every task it was given has finished.
AllTasksDone(wpc, mpc) ==
    /\ \A w \in WorkerIds : wpc[w] \in {"absent", "stopped"}
    /\ mpc = "stopped"

TotalStarted == SumSeq([i \in 1 .. MaxWorkers |-> started[i - 1]])

\* fix-indentation.py has no part in a run of the load tester.
FixerNotRun ==
    /\ lines = <<>>
    /\ output = <<>>
    /\ line_index = 0
    /\ inside_main = FALSE
    /\ indent_stack = 0

\* The state before main() runs, for a tester of the given size against a
\* database with the given write latencies.
TesterState(workers, lats) ==
    /\ open_sessions = 0
    /\ write_delay = NoDelay
    /\ progress = NoProgress
    /\ executor_threads \in 1 .. MaxWorkers
    /\ executor_queue = <<>>
    /\ latencies = lats
    /\ num_workers = workers
    /\ cruise_ids = {}
    /\ write_attempts = <<>>
    /\ successful_writes = 0
    /\ failed_writes = 0
    /\ start_time = None
    /\ first_failure_time = None
    /\ last_failure_time = None
    /\ first_recovery_time = None
    /\ test_running = TRUE
    /\ main_pc = "init"
    /\ worker_pc = [w \in WorkerIds |-> "absent"]
    /\ worker_result = [w \in WorkerIds |-> NoResult]
    /\ worker_wake = [w \in WorkerIds |-> None]
    /\ monitor_pc = "absent"
    /\ summary = NoSummary
    /\ verdict = "none"
    /\ export_status = "none"
    /\ exported = <<>>
    /\ stop_reason = "none"
    /\ now = 0
    /\ started = [w \in WorkerIds |-> 0]
    /\ attempt_ids = <<>>
    /\ failure_assigns = 0
    /\ recovery_assigns = 0
    /\ in_flight_at_stop = 0

\* A run of the load tester: the indentation script is not part of it.
InitState(workers, lats) == FixerNotRun /\ TesterState(workers, lats)

Init == \E workers \in 0 .. MaxWorkers : InitState(workers, Durations)

\* Fractions of integers: a / b and 1.0 / q, kept exact.
Ratio(a, b) == [num |-> a, den |-> b]

Reciprocal(q) == [num |-> q.den, den |-> q.num]

\* Mutant: the delay does not take the worker count into account.
WriteDelay_PerRate(workers, rate) == Reciprocal(Ratio(rate, 1))

\* line 110: 1.0 / (writes_per_second / num_workers)
WriteDelay(workers, rate) == Reciprocal(Ratio(rate, workers))

\* FailoverLoadTester.__init__: line 110 divides by num_workers and sets
\* the delay, line 122 rejects an incomplete environment.
Construct ==
    /\ main_pc = "init"
    /\ \E env_complete \in BOOLEAN :
         main_pc' = IF num_workers = 0 THEN "ZeroDivisionError"
                    ELSE IF ~env_complete THEN "ValueError"
                    ELSE "constructed"
    /\ write_delay' = IF num_workers = 0 THEN write_delay
                      ELSE WriteDelay(num_workers, WRITES_PER_SECOND)
    /\ UNCHANGED <<fixer_vars, open_sessions, progress, executor_threads, executor_queue,
                   latencies, num_workers, cruise_ids, metrics_vars,
                   start_time, test_running, worker_pc, worker_result,
                   worker_wake, monitor_pc, report_vars, stop_reason, now,
                   history_vars>>

\* Mutant: the empty result is not checked.
SetupSucceeds_NoEmptyCheck(query_ok, cruises) == query_ok

\* setup_test_data, lines 148-158: the query raised (except clause) or
\* returned no cruise (line 151), and sys.exit(1) is called; otherwise the
\* ids are kept.
SetupSucceeds(query_ok, cruises) == query_ok /\ cruises # {}

\* run_load_test up to its first await: setup_test_data, start_time, and
\* the creation of the worker and monitor tasks.
RunLoadTestStart ==
    /\ main_pc = "constructed"
    /\ \E query_ok \in BOOLEAN, cruises \in SUBSET (1 .. MaxCruises) :
         IF ~SetupSucceeds(query_ok, cruises)
         THEN /\ main_pc' = "exited"
              /\ UNCHANGED <<cruise_ids, start_time, worker_pc, monitor_pc>>
         ELSE /\ cruise_ids' = cruises
              /\ start_time' = now
              /\ worker_pc' = [w \in WorkerIds |->
                                 IF w < num_workers THEN "ready" ELSE "absent"]
              /\ monitor_pc' = "ready"
              /\ main_pc' = "sleeping"
    /\ UNCHANGED <<fixer_vars, open_sessions, write_delay, progress, executor_threads, executor_queue, latencies, num_workers, metrics_vars, test_running, worker_result,
                   worker_wake, report_vars, stop_reason, now, history_vars>>

\* loop.run_in_executor(None, ...), lines 201-203: the default executor is
\* a thread pool whose size is fixed by the host, not by num_workers.  A
\* job runs at once if a thread is idle, else it waits in the pool's queue.
ExecutorBusy == Cardinality({v \in WorkerIds : worker_pc[v] = "writing"})

ExecutorHasIdleThread == ExecutorBusy < executor_threads

\* The worker positions once the job of worker w has ended with position
\* pc_w: the freed thread takes the job at the head of the queue.
ExecutorRelease(w, pc_w) ==
    [v \in WorkerIds |->
        IF v = w THEN pc_w
        ELSE IF executor_queue # <<>> /\ v = Head(executor_queue)
             THEN "writing" ELSE worker_pc[v]]

ExecutorQueueAfterRelease ==
    IF executor_queue # <<>> THEN Tail(executor_queue) ELSE executor_queue

\* "with Session(self.engine) as session", line 168: a write that starts
\* to run opens a session of its own.
SessionsAfterStart(n) == n + 1

\* Mutant: the session is closed on the success path only.
SessionsAfterWrite_LeakOnFailure(n, success) == IF success THEN n - 1 ELSE n

\* The with block of lines 168-184 is left by the return or by the
\* exception: the session is closed in either case.
SessionsAfterWrite(n, success) == n - 1

\* The session of the queued write that the freed thread starts to run.
SessionsOfNextJob ==
    IF executor_queue # <<>> THEN SessionsAfterStart(0) ELSE 0

\* The connections the engine may hold: pool_size and max_overflow.
PoolCapacity(workers) == workers + POOL_SIZE_EXTRA + MAX_OVERFLOW

\* asyncio.sleep(self.write_delay), line 215: the sleep entered at clock
\* reading since is over at a reading that is write_delay seconds later
\* or more; write_delay is positive, so that is a later reading.
SleepElapsed(since, clock) ==
    (clock - since) * write_delay.den >= write_delay.num

\* Mutant: the worker loop does not test the stop flag ("while True").
WorkerLoop_IgnoreStop(w) ==
    /\ \/ worker_pc[w] = "ready"
       \/ worker_pc[w] = "sleeping" /\ SleepElapsed(worker_wake[w], now)
    /\ worker_wake' = [worker_wake EXCEPT ![w] = None]
    /\ TotalStarted < MaxAttempts
    /\ worker_pc' = [worker_pc EXCEPT ![w] =
                       IF ExecutorHasIdleThread THEN "writing" ELSE "queued"]
    /\ executor_queue' = IF ExecutorHasIdleThread THEN executor_queue
                         ELSE Append(executor_queue, w)
    /\ open_sessions' = IF ExecutorHasIdleThread
                        THEN SessionsAfterStart(open_sessions)
                        ELSE open_sessions
    /\ started' = [started EXCEPT ![w] = @ + 1]
    /\ UNCHANGED <<fixer_vars, write_delay, progress, executor_threads, latencies,
                   num_workers, cruise_ids, metrics_vars, start_time,
                   test_running, main_pc, worker_result, monitor_pc,
                   report_vars, stop_reason, now, attempt_ids,
                   failure_assigns, recovery_assigns, in_flight_at_stop>>

\* worker: the "while self.metrics.test_running" test, reached when the
\* task first runs and each time asyncio.sleep(write_delay) returns, and
\* the hand-over of write_info_request to the executor.
WorkerLoop(w) ==
    /\ \/ worker_pc[w] = "ready"
       \/ worker_pc[w] = "sleeping" /\ SleepElapsed(worker_wake[w], now)
    /\ worker_wake' = [worker_wake EXCEPT ![w] = None]
    /\ IF test_running
       THEN /\ TotalStarted < MaxAttempts
            /\ worker_pc' = [worker_pc EXCEPT ![w] =
                   IF ExecutorHasIdleThread THEN "writing" ELSE "queued"]
            /\ executor_queue' = IF ExecutorHasIdleThread THEN executor_queue
                                 ELSE Append(executor_queue, w)
            /\ open_sessions' = IF ExecutorHasIdleThread
                                THEN SessionsAfterStart(open_sessions)
                                ELSE open_sessions
            /\ started' = [started EXCEPT ![w] = @ + 1]
       ELSE /\ worker_pc' = [worker_pc EXCEPT ![w] = "stopped"]
            /\ UNCHANGED <<started, executor_queue, open_sessions>>
    /\ UNCHANGED <<fixer_vars, write_delay, progress, executor_threads, latencies,
                   num_workers, cruise_ids, metrics_vars, start_time,
                   test_running, main_pc, worker_result, monitor_pc,
                   report_vars, stop_reason, now, attempt_ids,
                   failure_assigns, recovery_assigns, in_flight_at_stop>>

\* Mutant: the except clauses return no message.
FailureResult_NoMessage(duration_ms, error_msg) ==
    [success |-> FALSE, duration_ms |-> duration_ms, error |-> NoError]

\* Lines 186-192: the tuple returned by either except clause; error_msg is
\* str(e.orig) or str(e), a string in every case.
FailureResult(duration_ms, error_msg) ==
    [success |-> FALSE, duration_ms |-> duration_ms, error |-> error_msg]

\* Mutant: the write takes its key out of the pool (pop instead of choice).
write_info_request_PopsKey(w) ==
    /\ worker_pc[w] = "writing"
    /\ \E duration_ms \in latencies :
         \/ /\ cruise_ids # {}
            /\ worker_result' = [worker_result EXCEPT ![w] =
                  [success |-> TRUE, duration_ms |-> duration_ms,
                   error |-> NoError]]
            /\ \E key \in cruise_ids : cruise_ids' = cruise_ids \ {key}
            /\ open_sessions' =
                  SessionsAfterWrite(open_sessions, TRUE) + SessionsOfNextJob
         \/ /\ \E error_msg \in ErrorMessages :
                 worker_result' = [worker_result EXCEPT ![w] =
                    FailureResult(duration_ms, error_msg)]
            /\ UNCHANGED cruise_ids
            /\ open_sessions' =
                  SessionsAfterWrite(open_sessions, FALSE) + SessionsOfNextJob
    /\ worker_pc' = ExecutorRelease(w, "returned")
    /\ executor_queue' = ExecutorQueueAfterRelease
    /\ UNCHANGED <<fixer_vars, write_delay, progress, executor_threads, latencies,
                   num_workers, metrics_vars, start_time, test_running,
                   main_pc, worker_wake, monitor_pc, report_vars,
                   stop_reason, now, history_vars>>

\* Mutant: no except clause, a failed insert ends the worker task.
write_info_request_Raises(w) ==
    /\ worker_pc[w] = "writing"
    /\ \E duration_ms \in latencies :
         \/ /\ cruise_ids # {}
            /\ worker_result' = [worker_result EXCEPT ![w] =
                  [success |-> TRUE, duration_ms |-> duration_ms,
                   error |-> NoError]]
            /\ worker_pc' = ExecutorRelease(w, "returned")
            /\ open_sessions' =
                  SessionsAfterWrite(open_sessions, TRUE) + SessionsOfNextJob
         \/ /\ worker_result' = worker_result
            /\ worker_pc' = ExecutorRelease(w, "stopped")
            /\ open_sessions' =
                  SessionsAfterWrite(open_sessions, FALSE) + SessionsOfNextJob
    /\ executor_queue' = ExecutorQueueAfterRelease
    /\ UNCHANGED <<fixer_vars, write_delay, progress, executor_threads, latencies,
                   num_workers, cruise_ids, metrics_vars, start_time,
                   test_running, main_pc, worker_wake, monitor_pc,
                   report_vars, stop_reason, now, history_vars>>

\* write_info_request, in an executor thread, and the thread's return to
\* the pool: the insert commits (lines 168-184), or an exception is turned
\* into a failure tuple whose message is str(e), possibly empty (lines
\* 186-192).  random.choice raises on an empty cruise_ids, inside the try
\* block.
write_info_request(w) ==
    /\ worker_pc[w] = "writing"
    /\ \E duration_ms \in latencies :
         \/ /\ cruise_ids # {}
            /\ worker_result' = [worker_result EXCEPT ![w] =
                  [success |-> TRUE, duration_ms |-> duration_ms,
                   error |-> NoError]]
            /\ open_sessions' =
                  SessionsAfterWrite(open_sessions, TRUE) + SessionsOfNextJob
         \/ \E error_msg \in ErrorMessages :
               /\ worker_result' = [worker_result EXCEPT ![w] =
                     FailureResult(duration_ms, error_msg)]
               /\ open_sessions' =
                     SessionsAfterWrite(open_sessions, FALSE) + SessionsOfNextJob
    /\ worker_pc' = ExecutorRelease(w, "returned")
    /\ executor_queue' = ExecutorQueueAfterRelease
    /\ UNCHANGED <<fixer_vars, write_delay, progress, executor_threads, latencies,
                   num_workers, cruise_ids, metrics_vars, start_time,
                   test_running, main_pc, worker_wake, monitor_pc,
                   report_vars, stop_reason, now, history_vars>>

\* worker, from the return of run_in_executor to asyncio.sleep: the
\* attempt is recorded.
WorkerRecord(w) ==
    /\ worker_pc[w] = "returned"
    /\ record_write_attempt(worker_result[w].success,
                            worker_result[w].duration_ms,
                            worker_result[w].error)
    /\ attempt_ids' = Append(attempt_ids, <<w, started[w]>>)
    /\ worker_result' = [worker_result EXCEPT ![w] = NoResult]
    /\ worker_pc' = [worker_pc EXCEPT ![w] = "sleeping"]
    /\ worker_wake' = [worker_wake EXCEPT ![w] = now]
    /\ UNCHANGED <<fixer_vars, open_sessions, write_delay, progress, executor_threads, executor_queue, latencies, num_workers, cruise_ids, start_time, test_running,
                   main_pc, monitor_pc, report_vars, stop_reason, now,
                   started, in_flight_at_stop>>

\* Mutant: the reporter loops forever ("while True").
MonitorProgress_Forever ==
    /\ monitor_pc = "ready"
    /\ monitor_pc' = "sleeping"
    /\ UNCHANGED <<fixer_vars, open_sessions, write_delay, progress, executor_threads, executor_queue, latencies, num_workers, cruise_ids, metrics_vars, start_time,
                   test_running, main_pc, worker_pc, worker_result,
                   worker_wake, report_vars, stop_reason, now, history_vars>>

\* Mutant: the window is the first 50 records, write_attempts[:50].
RecentWrites_Oldest(log) ==
    SubSeq(log, 1, IF Len(log) > RECENT_WINDOW THEN RECENT_WINDOW ELSE Len(log))

\* line 225: self.metrics.write_attempts[-50:]
RecentWrites(log) ==
    SubSeq(log,
           IF Len(log) > RECENT_WINDOW THEN Len(log) - RECENT_WINDOW + 1 ELSE 1,
           Len(log))

\* Lines 225-231: the values of the progress line, read in one stretch of
\* code with no await in it; the rate is in hundredths of a percent.
ProgressReport ==
    LET recent_writes == RecentWrites(write_attempts)
    IN [total |-> Len(write_attempts),
        successful |-> successful_writes,
        failed |-> failed_writes,
        recent_success_rate |->
            (Len(SuccessfulDurations(recent_writes)) * 10000)
                \div Len(recent_writes)]

\* monitor_progress: the loop test when the task first runs, and after
\* each asyncio.sleep(5) the progress line, printed if the log is not
\* empty, and the loop test.
MonitorProgress ==
    /\ \/ /\ monitor_pc = "ready"
          /\ UNCHANGED progress
       \/ /\ monitor_pc = "sleeping"
          /\ progress' = IF write_attempts # <<>> THEN ProgressReport
                         ELSE progress
    /\ monitor_pc' = IF test_running THEN "sleeping" ELSE "stopped"
    /\ UNCHANGED <<fixer_vars, open_sessions, write_delay, executor_threads, executor_queue, latencies, num_workers, cruise_ids, metrics_vars, start_time,
                   test_running, main_pc, worker_pc, worker_result,
                   worker_wake, report_vars, stop_reason, now, history_vars>>

\* Mutant: the finally clause cancels the worker tasks instead of letting
\* them see the flag.
StopTest_CancelWorkers ==
    /\ main_pc = "sleeping"
    /\ \E reason \in {"duration", "interrupt"} : stop_reason' = reason
    /\ test_running' = FALSE
    /\ main_pc' = "gathering"
    /\ in_flight_at_stop' =
         Cardinality({w \in WorkerIds : worker_pc[w] \in {"queued", "writing", "returned"}})
    /\ worker_pc' = [w \in WorkerIds |->
                       IF worker_pc[w] = "absent" THEN "absent" ELSE "stopped"]
    /\ executor_queue' = <<>>
    /\ UNCHANGED <<fixer_vars, open_sessions, write_delay, progress, executor_threads, latencies, num_workers,
                   cruise_ids, metrics_vars, start_time, worker_result,
                   worker_wake, monitor_pc, report_vars, now, started,
                   attempt_ids, failure_assigns, recovery_assigns>>

\* run_load_test, lines 271-282: asyncio.sleep(duration_seconds) returns
\* or is interrupted; the finally clause clears test_running and awaits
\* the tasks.
StopTest ==
    /\ main_pc = "sleeping"
    /\ \E reason \in {"duration", "interrupt"} : stop_reason' = reason
    /\ test_running' = FALSE
    /\ main_pc' = "gathering"
    /\ in_flight_at_stop' =
         Cardinality({w \in WorkerIds : worker_pc[w] \in {"queued", "writing", "returned"}})
    /\ UNCHANGED <<fixer_vars, open_sessions, write_delay, progress, executor_threads, executor_queue, latencies, num_workers, cruise_ids, metrics_vars, start_time,
                   worker_pc, worker_result, worker_wake, monitor_pc,
                   report_vars, now, started, attempt_ids, failure_assigns, recovery_assigns>>

\* Mutant: the duration is written without decimals ("{:.0f}").
FormatDuration_WholeMs(duration_ms) == ((duration_ms + 500) \div 1000) * 100

\* f"{attempt['duration_ms']:.2f}", line 345: the duration in hundredths
\* of a millisecond, rounded to the nearest (durations are in microseconds).
FormatDuration(duration_ms) == (duration_ms + 5) \div 10

\* line 344: csv writes str(attempt['success']).
FormatSuccess(success) == IF success THEN "True" ELSE "False"

\* line 346: attempt['error'] or '', so None and "" are both written "".
FormatError(error) == IF error = NoError \/ error = "" THEN "" ELSE error

\* The dict given to writer.writerow, lines 342-347.  isoformat() prints
\* every field of the datetime, so the timestamp column keeps its value.
ExportRow(attempt) ==
    [timestamp |-> attempt.timestamp,
     success |-> FormatSuccess(attempt.success),
     duration_ms |-> FormatDuration(attempt.duration_ms),
     error |-> FormatError(attempt.error)]

\* The loop of lines 341-347: one row per attempt, in log order.
ExportRows(log) == [i \in 1 .. Len(log) |-> ExportRow(log[i])]

\* Mutant: export_results has no except clause.
ExportRaises_Uncaught(io_ok) == ~io_ok

\* Lines 334 and 352: every Exception raised while the file is opened or
\* written is caught inside export_results, nothing is raised to the caller.
ExportRaises(io_ok) == FALSE

\* run_load_test, lines 282-285: gather returns, then print_summary, which
\* ends with export_results.  A failing export may have written any number
\* of leading rows before the error.
PrintSummary ==
    /\ main_pc = "gathering"
    /\ AllTasksDone(worker_pc, monitor_pc)
    /\ summary' = get_summary
    /\ verdict' = SlaVerdict(get_summary.failover_duration_seconds)
    /\ \E io_ok \in BOOLEAN, written \in 0 .. Len(write_attempts) :
         /\ io_ok => written = Len(write_attempts)
         /\ export_status' = IF io_ok THEN "written" ELSE "failed"
         /\ exported' = SubSeq(ExportRows(write_attempts), 1, written)
         /\ main_pc' = IF ExportRaises(io_ok) THEN "OSError" ELSE "done"
    /\ UNCHANGED <<fixer_vars, open_sessions, write_delay, progress, executor_threads, executor_queue, latencies, num_workers, cruise_ids, metrics_vars, start_time,
                   test_running, worker_pc, worker_result, worker_wake,
                   monitor_pc, stop_reason, now, history_vars>>

\* The wall clock advances: freely up to ClockEnd, and beyond it only to
\* end the sleep of a worker that waits for the next reading.
Tick ==
    /\ \/ now < ClockEnd
       \/ \E w \in WorkerIds :
             worker_pc[w] = "sleeping" /\ ~SleepElapsed(worker_wake[w], now)
    /\ now' = now + TickSeconds
    /\ UNCHANGED <<fixer_vars, open_sessions, write_delay, progress, executor_threads, executor_queue, latencies, num_workers, cruise_ids, metrics_vars, start_time,
                   test_running, main_pc, worker_pc, worker_result,
                   worker_wake, monitor_pc, report_vars, stop_reason,
                   history_vars>>

Next ==
    \/ Construct
    \/ RunLoadTestStart
    \/ \E w \in WorkerIds : WorkerLoop(w)
    \/ \E w \in WorkerIds : write_info_request(w)
    \/ \E w \in WorkerIds : WorkerRecord(w)
    \/ MonitorProgress
    \/ StopTest
    \/ PrintSummary
    \/ Tick

Spec == Init /\ [][Next]_vars

\* A re-reader of the exported file, as the round trip of the specification
\* has it: csv.DictReader gives every column as text, success is the text
\* "True" or "False", and float() of the duration column gives the
\* milliseconds to two decimals (here in microseconds).
ReadRow(row) ==
    [timestamp |-> row.timestamp,
     success |-> row.success = "True",
     duration_ms |-> row.duration_ms * 10,
     error |-> row.error]

ReadExport(rows) == [i \in 1 .. Len(rows) |-> ReadRow(rows[i])]

\* Latencies for the export round trip, in microseconds: 0 ms, 1.004 ms
\* and 2.496 ms, each nearer to one two-decimal text than to any other.
ExportDurations == {0, 1004, 2496}

\* A tester with one worker against a database with these latencies.
InitExport == InitState(1, ExportDurations)

SpecExport == InitExport /\ [][Next]_vars

\* The metrics after one more record r is recorded on the metrics m, as
\* record_write_attempt does it.
MetricsStep(m, r) ==
    LET recovers == r.success /\ RecoveryPending(m.first_failure_time,
                                                 m.first_recovery_time)
        first_fails == ~r.success /\ FirstFailureUnset(m.first_failure_time)
    IN [successful_writes |-> SuccessCountAfter(m.successful_writes, r.success),
        failed_writes |-> FailureCountAfter(m.failed_writes, r.success),
        first_failure_time |->
            IF first_fails THEN r.timestamp ELSE m.first_failure_time,
        last_failure_time |->
            IF r.success THEN m.last_failure_time ELSE r.timestamp,
        first_recovery_time |->
            IF recovers THEN r.timestamp ELSE m.first_recovery_time,
        failure_assigns |->
            IF first_fails THEN m.failure_assigns + 1 ELSE m.failure_assigns,
        recovery_assigns |->
            IF recovers THEN m.recovery_assigns + 1 ELSE m.recovery_assigns]

\* The metrics after the records of log from the i-th on are recorded one
\* by one, in log order, on the metrics m.  (The test on the counter has
\* each step evaluated before the next one is taken.)
RECURSIVE Replay(_, _, _)
Replay(m, log, i) ==
    IF i > Len(log) THEN m
    ELSE LET next == MetricsStep(m, log[i])
         IN IF next.successful_writes >= 0 THEN Replay(next, log, i + 1)
            ELSE next

\* The metrics after the records of log were recorded, starting from the
\* metrics of FailoverMetrics.__init__.
MetricsAfter(log) ==
    Replay([successful_writes |-> 0, failed_writes |-> 0,
            first_failure_time |-> None, last_failure_time |-> None,
            first_recovery_time |-> None,
            failure_assigns |-> 0, recovery_assigns |-> 0], log, 1)

\* The log of one worker after n attempts, each recorded at a later clock
\* reading than the one before; the attempts numbered in failed failed.
MidRunLog(n, failed) ==
    [i \in 1 .. n |->
        AttemptRecord(i * TickSeconds, i \notin failed, 0,
                      IF i \in failed THEN "connection refused" ELSE NoError)]

\* A run of one worker that has recorded n attempts and has handed its
\* next write to the executor, before the first progress line.
MidRunState(n, failed) ==
    LET log == MidRunLog(n, failed)
        m == MetricsAfter(log)
    IN /\ FixerNotRun
       /\ open_sessions = 1
       /\ write_delay = WriteDelay(1, WRITES_PER_SECOND)
       /\ progress = NoProgress
       /\ executor_threads \in 1 .. MaxWorkers
       /\ executor_queue = <<>>
       /\ latencies = Durations
       /\ num_workers = 1
       /\ cruise_ids = 1 .. MaxCruises
       /\ write_attempts = log
       /\ successful_writes = m.successful_writes
       /\ failed_writes = m.failed_writes
       /\ start_time = 0
       /\ first_failure_time = m.first_failure_time
       /\ last_failure_time = m.last_failure_time
       /\ first_recovery_time = m.first_recovery_time
       /\ test_running = TRUE
       /\ main_pc = "sleeping"
       /\ worker_pc = [w \in WorkerIds |-> IF w = 0 THEN "writing" ELSE "absent"]
       /\ worker_result = [w \in WorkerIds |-> NoResult]
       /\ worker_wake = [w \in WorkerIds |-> None]
       /\ monitor_pc = "sleeping"
       /\ summary = NoSummary
       /\ verdict = "none"
       /\ export_status = "none"
       /\ exported = <<>>
       /\ stop_reason = "none"
       /\ now = (n + 1) * TickSeconds
       /\ started = [w \in WorkerIds |-> IF w = 0 THEN n + 1 ELSE 0]
       /\ attempt_ids = [i \in 1 .. n |-> <<0, i>>]
       /\ failure_assigns = m.failure_assigns
       /\ recovery_assigns = m.recovery_assigns
       /\ in_flight_at_stop = 0

\* Log lengths around the size of the window of monitor_progress.
MonitorLogLengths == (RECENT_WINDOW - 1) .. (RECENT_WINDOW + 1)

\* A fresh run of one worker, or a run that has recorded about a window of
\* attempts, of which the first, the second or the last may have failed.
InitMonitor ==
    \/ InitState(1, Durations)
    \/ \E n \in MonitorLogLengths :
          \E failed \in SUBSET {1, 2, n} : MidRunState(n, failed)

SpecMonitor == InitMonitor /\ [][Next]_vars

\* What the scheduling guarantees: the event loop runs every coroutine that
\* is ready, asyncio.sleep returns once its delay is over (the clock
\* advances), and every write call returns (connect_timeout and
\* statement_timeout at lines 139-142).
Fairness ==
    /\ WF_vars(Tick)
    /\ WF_vars(StopTest)
    /\ WF_vars(PrintSummary)
    /\ WF_vars(MonitorProgress)
    /\ \A w \in WorkerIds :
         /\ WF_vars(WorkerLoop(w))
         /\ WF_vars(write_info_request(w))
         /\ WF_vars(WorkerRecord(w))

FairSpec == Spec /\ Fairness

\* ===================================================================
\* Properties
\* ===================================================================
Indexes == 1 .. Len(write_attempts)
CountIn(flag) ==
    Cardinality({i \in Indexes : write_attempts[i].success = flag})
Appended == Len(write_attempts') = Len(write_attempts) + 1
LastAppended == write_attempts'[Len(write_attempts')]
RecordedBy(i) == attempt_ids[i][1]

\* -------------------------------------------------------------------
\* C1: in every reachable state successful_writes + failed_writes equals
\* len(write_attempts), successful_writes is the number of records with
\* success = true and failed_writes the number with success = false; no
\* step decreases either counter.
C1_CountersMatchLog ==
    /\ successful_writes + failed_writes = Len(write_attempts)
    /\ successful_writes = CountIn(TRUE)
    /\ failed_writes = CountIn(FALSE)

C1_CountersNeverDecrease ==
    /\ successful_writes' >= successful_writes
    /\ failed_writes' >= failed_writes

C1_Counters == []C1_CountersMatchLog /\ [][C1_CountersNeverDecrease]_vars

\* Two workers have recorded, with both outcomes in the log.
C1_Witness ==
    /\ successful_writes >= 1
    /\ failed_writes >= 1
    /\ Len(write_attempts) = 3
    /\ \E i, j \in Indexes : RecordedBy(i) # RecordedBy(j)

\* -------------------------------------------------------------------
\* C2: once first_failure_time is set, no later step (a failed or a
\* successful record_write_attempt of any worker) changes it.
C2_FirstFailureSetOnce ==
    [][first_failure_time # None => first_failure_time' = first_failure_time]_vars

\* A second failure was recorded at a later clock reading than the first,
\* by another worker, and first_failure_time still names the first.
C2_Witness ==
    /\ first_failure_time # None
    /\ \E i, j \in Indexes :
         /\ i < j
         /\ ~write_attempts[i].success /\ ~write_attempts[j].success
         /\ write_attempts[i].timestamp = first_failure_time
         /\ write_attempts[j].timestamp > first_failure_time
         /\ RecordedBy(i) # RecordedBy(j)

\* -------------------------------------------------------------------
\* C3: in every reachable state, first_recovery_time set implies
\* first_failure_time set.
C3_RecoveryImpliesFailure ==
    first_recovery_time # None => first_failure_time # None

\* A recovery has been detected, after successes that preceded the failure.
C3_Witness ==
    /\ first_recovery_time # None
    /\ Len(write_attempts) >= 3
    /\ write_attempts[1].success

\* -------------------------------------------------------------------
\* C4 as stated: first_recovery_time is set if and only if some successful
\* attempt has been recorded with a timestamp after first_failure_time.
C4_Original ==
    first_recovery_time # None <=>
        /\ first_failure_time # None
        /\ \E i \in Indexes :
             /\ write_attempts[i].success
             /\ write_attempts[i].timestamp > first_failure_time

\* C4 as amended: first_recovery_time is set if and only if some successful
\* attempt has been recorded after a failed one in log order; it is then
\* the timestamp of the first such success and is not earlier than (it may
\* equal) first_failure_time.  A success recorded while first_failure_time
\* is unset leaves first_recovery_time unset.
C4_RecoveryIffSuccessAfterFailure ==
    /\ first_recovery_time # None <=>
         \E i, j \in Indexes :
            i < j /\ ~write_attempts[i].success /\ write_attempts[j].success
    /\ first_recovery_time # None =>
         /\ first_recovery_time >= first_failure_time
         /\ \E i, j \in Indexes :
              /\ i < j
              /\ ~write_attempts[i].success
              /\ write_attempts[j].success
              /\ write_attempts[j].timestamp = first_recovery_time
              /\ \A k \in (i + 1) .. (j - 1) : ~write_attempts[k].success

C4_SuccessBeforeFailureIgnored ==
    (first_failure_time = None /\ Appended /\ LastAppended.success)
        => first_recovery_time' = None

C4_Amended ==
    []C4_RecoveryIffSuccessAfterFailure /\ [][C4_SuccessBeforeFailureIgnored]_vars

\* A success was recorded before any failure, and the recovery was then
\* recorded at the same clock reading as the first failure.
C4_Witness ==
    /\ Len(write_attempts) >= 3
    /\ write_attempts[1].success
    /\ first_recovery_time # None
    /\ first_recovery_time = first_failure_time

\* -------------------------------------------------------------------
\* C5: the detector state derived from (first_failure_time,
\* first_recovery_time) changes only Stable -> Failing, and does so exactly
\* on a failed record, and Failing -> Recovered, exactly on a successful
\* record; in Recovered no step changes first_failure_time,
\* first_recovery_time or the failover duration.
DetectorState ==
    IF first_failure_time = None
    THEN IF first_recovery_time = None THEN "Stable" ELSE "Invalid"
    ELSE IF first_recovery_time = None THEN "Failing" ELSE "Recovered"

C5_Step ==
    /\ DetectorState' # DetectorState =>
         <<DetectorState, DetectorState'>> \in
            {<<"Stable", "Failing">>, <<"Failing", "Recovered">>}
    /\ DetectorState = "Stable" =>
         (DetectorState' = "Failing" <=> (Appended /\ ~LastAppended.success))
    /\ DetectorState = "Failing" =>
         (DetectorState' = "Recovered" <=> (Appended /\ LastAppended.success))
    /\ DetectorState = "Recovered" =>
         /\ first_failure_time' = first_failure_time
         /\ first_recovery_time' = first_recovery_time
         /\ get_failover_duration_seconds(first_failure_time', first_recovery_time')
              = get_failover_duration_seconds(first_failure_time, first_recovery_time)

C5_DetectorStateMachine == [][C5_Step]_vars

\* Recovered, with a failure recorded at a later clock reading than the
\* recovery.
C5_Witness ==
    /\ DetectorState = "Recovered"
    /\ last_failure_time > first_recovery_time

\* -------------------------------------------------------------------
\* C6: under every interleaving of the workers, at most one
\* record_write_attempt call assigns first_failure_time and at most one
\* assigns first_recovery_time; an assignment is made only by a call that
\* found the field unset, so no two calls both find it unset and assign.
C6_AssignedAtMostOnce ==
    /\ failure_assigns <= 1
    /\ recovery_assigns <= 1

C6_AssignOnlyWhenUnset ==
    /\ failure_assigns' # failure_assigns =>
         /\ first_failure_time = None
         /\ first_failure_time' # None
         /\ failure_assigns' = 1
    /\ recovery_assigns' # recovery_assigns =>
         /\ first_recovery_time = None
         /\ first_recovery_time' # None
         /\ recovery_assigns' = 1

C6_RaceFree == []C6_AssignedAtMostOnce /\ [][C6_AssignOnlyWhenUnset]_vars

\* Two workers' writes both failed while both were in flight, and both
\* were recorded; a later success has been recorded as the recovery.
C6_Witness ==
    /\ failure_assigns = 1
    /\ recovery_assigns = 1
    /\ Len(write_attempts) = 3
    /\ ~write_attempts[1].success
    /\ ~write_attempts[2].success
    /\ RecordedBy(1) # RecordedBy(2)
    /\ started[RecordedBy(1)] + started[RecordedBy(2)] = 3

\* -------------------------------------------------------------------
\* C7: when run_load_test has printed the final summary (after the
\* duration or after an interrupt), the stop flag is set, every worker has
\* exited, and every attempt any worker started has exactly one record in
\* write_attempts and is counted in the summary.
AttemptsStarted ==
    {<<w, n>> \in WorkerIds \X (1 .. MaxAttempts) : n <= started[w]}

C7_NoAttemptLost ==
    main_pc = "done" =>
        /\ ~test_running
        /\ \A w \in WorkerIds : worker_pc[w] \in {"absent", "stopped"}
        /\ Len(attempt_ids) = Len(write_attempts)
        /\ \A a \in AttemptsStarted :
             Cardinality({i \in Indexes : attempt_ids[i] = a}) = 1
        /\ Len(write_attempts) = Cardinality(AttemptsStarted)
        /\ summary.total_attempts = Cardinality(AttemptsStarted)
        /\ summary.successful_writes + summary.failed_writes
             = Cardinality(AttemptsStarted)

\* The run was interrupted while two attempts were in flight, and the
\* summary has been printed.
C7_Witness ==
    /\ main_pc = "done"
    /\ stop_reason = "interrupt"
    /\ in_flight_at_stop = 2
    /\ Len(write_attempts) = 3

\* -------------------------------------------------------------------
\* C8: print_summary reports the SLA as passed if and only if the failover
\* duration is present (both timestamps set) and below the threshold, for
\* every present value including 0, and reports an SLA failure when the
\* duration is present and not below the threshold.
DurationPresent == first_failure_time # None /\ first_recovery_time # None

C8_SlaVerdict ==
    main_pc = "done" =>
        /\ verdict = "PASSED" <=>
             /\ DurationPresent
             /\ first_recovery_time - first_failure_time < SLA_TARGET_SECONDS
        /\ (/\ DurationPresent
            /\ first_recovery_time - first_failure_time >= SLA_TARGET_SECONDS)
             => verdict = "EXCEEDED"

\* -------------------------------------------------------------------
\* C9: the failover duration of the summary is first_recovery_time -
\* first_failure_time when both are set and absent otherwise; it is the
\* time from the first failed record of the log to the first successful
\* record after it.  For a log whose only failure is at T1 and is followed
\* by a success at T2, first_failure_time = T1, first_recovery_time = T2
\* and the duration is T2 - T1.
FailedIndexes == {i \in Indexes : ~write_attempts[i].success}
FirstFailedIndex == CHOOSE i \in FailedIndexes : \A k \in FailedIndexes : i <= k
RecoveryIndexes ==
    IF FailedIndexes = {} THEN {}
    ELSE {j \in Indexes : j > FirstFailedIndex /\ write_attempts[j].success}
FirstRecoveryIndex == CHOOSE j \in RecoveryIndexes : \A k \in RecoveryIndexes : j <= k

C9_FailoverDuration ==
    main_pc = "done" =>
        /\ summary.failover_duration_seconds =
             IF DurationPresent THEN first_recovery_time - first_failure_time
             ELSE None
        /\ summary.failover_duration_seconds =
             IF RecoveryIndexes # {}
             THEN write_attempts[FirstRecoveryIndex].timestamp
                    - write_attempts[FirstFailedIndex].timestamp
             ELSE None
        /\ \A i \in Indexes :
             (FailedIndexes = {i} /\ i < Len(write_attempts)) =>
                /\ first_failure_time = write_attempts[i].timestamp
                /\ first_recovery_time = write_attempts[i + 1].timestamp
                /\ summary.failover_duration_seconds =
                     write_attempts[i + 1].timestamp - write_attempts[i].timestamp

\* Success, one failure at T1, success at T2 > T1: the summary has T2 - T1.
C9_Witness ==
    /\ main_pc = "done"
    /\ Len(write_attempts) = 3
    /\ FailedIndexes = {2}
    /\ write_attempts[3].timestamp > write_attempts[2].timestamp
    /\ summary.failover_duration_seconds =
         write_attempts[3].timestamp - write_attempts[2].timestamp

\* -------------------------------------------------------------------
\* C10: if no failed attempt was recorded during the run, then at summary
\* time first_failure_time and first_recovery_time are unset, the failover
\* duration is absent (not 0), the success rate is 100% when at least one
\* attempt was recorded, and print_summary reports that no failover was
\* detected.
C10_NoFailureNoFailover ==
    (main_pc = "done" /\ FailedIndexes = {}) =>
        /\ first_failure_time = None
        /\ first_recovery_time = None
        /\ summary.first_failure_time = None
        /\ summary.first_recovery_time = None
        /\ summary.failover_duration_seconds = None
        /\ summary.failover_duration_seconds # 0
        /\ Len(write_attempts) >= 1 => summary.success_rate = 10000
        /\ verdict = "NO FAILOVER DETECTED"

\* A run of two workers in which all three writes succeeded.
C10_Witness ==
    /\ main_pc = "done"
    /\ Len(write_attempts) = 3
    /\ FailedIndexes = {}
    /\ \E i, j \in Indexes : RecordedBy(i) # RecordedBy(j)

\* -------------------------------------------------------------------
\* C11: with a worker count of 0, constructing the tester and running the
\* load test raises no division by zero, starts no worker, and ends with a
\* summary of 0 attempts and a success rate of 0.
C11_ZeroWorkers ==
    num_workers = 0 =>
        /\ main_pc # "ZeroDivisionError"
        /\ main_pc = "done" =>
             /\ summary.total_attempts = 0
             /\ summary.success_rate = 0

\* -------------------------------------------------------------------
\* C12: a failed write never terminates the worker.  write_info_request
\* always returns an outcome; a failure outcome is recorded as a failed
\* attempt with an error message and the worker goes on to its sleep; a
\* worker exits only when the stop flag is set, and while it is not set the
\* worker's next attempt can start once the sleep is over.
C12_Step ==
    \A w \in WorkerIds :
        /\ worker_pc[w] \in {"queued", "writing"} =>
             worker_pc'[w] \in {"queued", "writing", "returned"}
        /\ (worker_pc[w] = "returned" /\ worker_pc'[w] # "returned"
              /\ ~worker_result[w].success) =>
             /\ Appended
             /\ ~LastAppended.success
             /\ LastAppended.error \in ErrorMessages
             /\ worker_pc'[w] = "sleeping"
        /\ (worker_pc[w] # "stopped" /\ worker_pc'[w] = "stopped") =>
             ~test_running

C12_NextAttemptCanStart ==
    \A w \in WorkerIds :
        (/\ worker_pc[w] = "sleeping"
         /\ test_running
         /\ SleepElapsed(worker_wake[w], now)
         /\ TotalStarted < MaxAttempts)
            => ENABLED (WorkerLoop(w) /\ worker_pc'[w] \in {"queued", "writing"})

C12_FailedWriteKeepsWorker == []C12_NextAttemptCanStart /\ [][C12_Step]_vars

\* A worker whose first write failed has recorded it and is in its second
\* write.
C12_Witness ==
    \E w \in WorkerIds :
        /\ worker_pc[w] = "writing"
        /\ started[w] = 2
        /\ \E i \in Indexes :
             attempt_ids[i] = <<w, 1>> /\ ~write_attempts[i].success

\* -------------------------------------------------------------------
\* C13: if loading the key pool yields no keys or raises, or the
\* connection configuration is missing, the run is aborted before any
\* task is created: no attempt is started and write_attempts stays empty.
\* Whenever a worker exists or a write is in progress, cruise_ids is
\* non-empty.
SetupAborted == main_pc \in {"exited", "ValueError"}

C13_SetupErrorStartsNothing ==
    /\ SetupAborted =>
         /\ \A w \in WorkerIds : worker_pc[w] = "absent" /\ started[w] = 0
         /\ monitor_pc = "absent"
         /\ write_attempts = <<>>
         /\ cruise_ids = {}
    /\ \A w \in WorkerIds :
         worker_pc[w] # "absent" => (cruise_ids # {} /\ ~SetupAborted)

\* setup_test_data has ended the run of a tester with two workers.
C13_Witness ==
    /\ main_pc = "exited"
    /\ num_workers = 2
    /\ write_attempts = <<>>

\* -------------------------------------------------------------------
\* C14: once the tasks have been started, the run terminates with a
\* summary: the stop flag is set, every worker finishes its attempt and
\* exits, the progress reporter exits, and print_summary is executed.
RunFinished ==
    /\ main_pc = "done"
    /\ ~test_running
    /\ AllTasksDone(worker_pc, monitor_pc)
    /\ summary # NoSummary
    /\ verdict # "none"

C14_RunTerminates == (main_pc = "sleeping") ~> RunFinished

\* The summary has been printed after an interrupt that found both workers
\* in a write.
C14_Witness ==
    /\ RunFinished
    /\ stop_reason = "interrupt"
    /\ in_flight_at_stop = 2

\* -------------------------------------------------------------------
\* C15 as stated: once test_running is false, no step modifies the attempt
\* log, the counters or the first-failure / first-recovery timestamps.
C15_Original == [][~test_running => UNCHANGED metrics_vars]_vars

\* C15 as amended: once test_running is false, the only steps that modify
\* the metrics are the recordings of the attempts that were in flight when
\* the flag was cleared, one per worker at most: no new attempt is started,
\* and once every worker has exited the metrics are read-only.
InFlight ==
    Cardinality({w \in WorkerIds : worker_pc[w] \in {"queued", "writing", "returned"}})

C15_Step ==
    ~test_running =>
        /\ Len(write_attempts') + InFlight' = Len(write_attempts) + InFlight
        /\ started' = started
        /\ metrics_vars' # metrics_vars =>
             /\ Appended
             /\ \E w \in WorkerIds :
                  worker_pc[w] = "returned" /\ worker_pc'[w] = "sleeping"
        /\ AllTasksDone(worker_pc, monitor_pc) => UNCHANGED metrics_vars

C15_Amended == [][C15_Step]_vars

\* One attempt was in flight when the run was stopped; it has been
\* recorded and the summary printed.
C15_Witness ==
    /\ main_pc = "done"
    /\ in_flight_at_stop = 1
    /\ Len(write_attempts) = 2
    /\ summary.total_attempts = 2

\* -------------------------------------------------------------------
\* C16: a failing export is caught and reported: the step that reports it
\* leaves the metrics unchanged, the summary is the one get_summary
\* computed from them, the verdict is printed and the run ends normally.
C16_FailedExportState ==
    export_status = "failed" =>
        /\ main_pc = "done"
        /\ summary = get_summary
        /\ verdict = SlaVerdict(summary.failover_duration_seconds)

C16_FailedExportStep ==
    export_status' = "failed" =>
        /\ UNCHANGED metrics_vars
        /\ summary' = get_summary
        /\ export_status = "failed" => UNCHANGED <<summary, verdict, main_pc>>

C16_ExportFailureCaught ==
    /\ []C16_FailedExportState
    /\ []((main_pc \notin {"init", "constructed", "sleeping", "gathering"})
             => main_pc \in {"done", "exited", "ValueError", "ZeroDivisionError"})
    /\ [][C16_FailedExportStep]_vars

\* The export failed after one of two rows was written; the run is over.
C16_Witness ==
    /\ export_status = "failed"
    /\ main_pc = "done"
    /\ Len(write_attempts) = 2
    /\ Len(exported) = 1
    /\ summary.total_attempts = 2

\* -------------------------------------------------------------------
\* C17: the summary reports total_attempts = len(write_attempts), the
\* numbers of successful and failed records, and the success rate
\* successes / total as a percentage (here in hundredths of a percent,
\* rounded down), which is 0 for an empty log.
C17_SummaryTotals ==
    main_pc = "done" =>
        /\ summary.total_attempts = Len(write_attempts)
        /\ summary.successful_writes = CountIn(TRUE)
        /\ summary.failed_writes = CountIn(FALSE)
        /\ summary.successful_writes + summary.failed_writes
             = summary.total_attempts
        /\ summary.success_rate \in 0 .. 10000
        /\ summary.total_attempts = 0 => summary.success_rate = 0
        /\ summary.total_attempts # 0 =>
             /\ summary.success_rate * summary.total_attempts
                  <= summary.successful_writes * 10000
             /\ (summary.success_rate + 1) * summary.total_attempts
                  > summary.successful_writes * 10000

\* A run of one worker that was stopped before any attempt was recorded.
C17_Witness ==
    /\ main_pc = "done"
    /\ num_workers = 1
    /\ write_attempts = <<>>
    /\ summary.total_attempts = 0
    /\ summary.success_rate = 0

\* -------------------------------------------------------------------
\* C18: the write of one worker, failed or still pending, never disables
\* or delays another worker: a worker that has handed its write to the
\* executor can have it performed, a worker whose write has returned can
\* record it, and a worker at its loop test can take it, whatever the
\* other workers are doing.
C18_WorkerIndependence ==
    \A j \in WorkerIds :
        /\ worker_pc[j] \in {"queued", "writing"}
             => ENABLED write_info_request(j)
        /\ worker_pc[j] = "returned" => ENABLED WorkerRecord(j)
        /\ (/\ \/ worker_pc[j] = "ready"
               \/ /\ worker_pc[j] = "sleeping"
                  /\ SleepElapsed(worker_wake[j], now)
            /\ test_running => TotalStarted < MaxAttempts)
             => ENABLED WorkerLoop(j)

\* -------------------------------------------------------------------
\* C19 as stated: a successful export has one row per recorded attempt, in
\* log order, and the re-read file gives the same numbers of successful
\* and failed attempts and the same mean and median of the successful
\* durations as the summary.
Reread == ReadExport(exported)
RereadCount(flag) ==
    Cardinality({i \in 1 .. Len(exported) : Reread[i].success = flag})
RereadDurations == SuccessfulDurations(Reread)
Distance(x, y) == IF x >= y THEN x - y ELSE y - x

C19_RowsAndCounts ==
    /\ Len(exported) = Len(write_attempts)
    /\ \A i \in Indexes :
         /\ Reread[i].timestamp = write_attempts[i].timestamp
         /\ Reread[i].success = write_attempts[i].success
    /\ RereadCount(TRUE) = summary.successful_writes
    /\ RereadCount(FALSE) = summary.failed_writes
    /\ RereadDurations = <<>> <=> summary.avg_write_duration_ms = None

C19_Original ==
    export_status = "written" =>
        /\ C19_RowsAndCounts
        /\ RereadDurations # <<>> =>
             /\ Mean(RereadDurations) = summary.avg_write_duration_ms
             /\ Median(RereadDurations) = summary.median_write_duration_ms

\* C19 as amended: the rows and the counts are reproduced exactly, the mean
\* and the median only to within 0.005 ms (500 hundredths of a
\* microsecond), since the durations are written with two decimals.
C19_Amended ==
    export_status = "written" =>
        /\ C19_RowsAndCounts
        /\ RereadDurations # <<>> =>
             /\ Distance(Mean(RereadDurations),
                         summary.avg_write_duration_ms) <= 500
             /\ Distance(Median(RereadDurations),
                         summary.median_write_duration_ms) <= 500

\* Three attempts were exported: a failed one and two successful ones,
\* of 1.004 ms and 0 ms, whose mean is not the mean of the re-read rows.
C19_Witness ==
    /\ export_status = "written"
    /\ Len(exported) = 3
    /\ summary.failed_writes = 1
    /\ \E i, j \in Indexes :
         /\ write_attempts[i].success /\ write_attempts[i].duration_ms = 1004
         /\ write_attempts[j].success /\ write_attempts[j].duration_ms = 0
    /\ Mean(RereadDurations) # summary.avg_write_duration_ms

\* -------------------------------------------------------------------
\* C20: the attempt log is append-only.  Every step leaves write_attempts
\* unchanged or appends one record at its end, the records already there
\* keeping their value and place; the metrics change only in the step in
\* which a worker records an attempt, and the steps of monitor_progress
\* and of print_summary (get_summary, export_results) change none of them.
C20_ReaderStep ==
    \/ monitor_pc' # monitor_pc
    \/ report_vars' # report_vars
    \/ main_pc' = "done"

C20_Step ==
    /\ \/ write_attempts' = write_attempts
       \/ /\ Appended
          /\ SubSeq(write_attempts', 1, Len(write_attempts)) = write_attempts
    /\ metrics_vars' # metrics_vars =>
         \E w \in WorkerIds :
            worker_pc[w] = "returned" /\ worker_pc'[w] = "sleeping"
    /\ C20_ReaderStep => UNCHANGED metrics_vars

C20_AppendOnly == [][C20_Step]_vars

\* Three records were appended while the reporter was running, and the
\* summary and the export have read them.
C20_Witness ==
    /\ main_pc = "done"
    /\ monitor_pc = "stopped"
    /\ Len(write_attempts) = 3
    /\ export_status = "written"
    /\ Len(exported) = 3
    /\ write_attempts[1].timestamp < write_attempts[3].timestamp

\* -------------------------------------------------------------------
\* C21: every progress line reports a prefix of the log as it is now: its
\* total is the length of the prefix and the sum of its two counters,
\* which count the successful and the failed records of the prefix, and
\* its recent rate is the rate of the last min(50, total) records of the
\* prefix.  The line is computed from the log of the moment it is printed,
\* in a step that changes no metrics field.
ProgressWindow(k) ==
    {i \in 1 .. k : i > k - RECENT_WINDOW}

C21_Report ==
    progress # NoProgress =>
        LET k == progress.total
            window == ProgressWindow(k)
            size == IF k < RECENT_WINDOW THEN k ELSE RECENT_WINDOW
        IN /\ k \in 1 .. Len(write_attempts)
           /\ progress.total = progress.successful + progress.failed
           /\ progress.successful =
                Cardinality({i \in 1 .. k : write_attempts[i].success})
           /\ progress.failed =
                Cardinality({i \in 1 .. k : ~write_attempts[i].success})
           /\ Cardinality(window) = size
           /\ progress.recent_success_rate =
                (Cardinality({i \in window : write_attempts[i].success}) * 10000)
                    \div size

C21_ReportStep ==
    progress' # progress =>
        /\ progress'.total = Len(write_attempts)
        /\ UNCHANGED metrics_vars

C21_ConsistentPrefix == []C21_Report /\ [][C21_ReportStep]_vars

\* The progress line was printed when the log had 51 records, the first
\* of them failed and outside the window of 50; a 52nd record has been
\* appended since.
C21_Witness ==
    /\ progress # NoProgress
    /\ progress.total = RECENT_WINDOW + 1
    /\ progress.failed = 1
    /\ progress.recent_success_rate = 10000
    /\ Len(write_attempts) = RECENT_WINDOW + 2
    /\ ~write_attempts[1].success

\* -------------------------------------------------------------------
\* C22: a worker sees the stop flag only at its loop test.  Once the flag
\* is set no attempt is started; an attempt that is in flight is not
\* aborted: its write returns, it is recorded as the attempt of that
\* worker, and only then does the worker reach the loop test and exit.  So
\* every started attempt is recorded or still in flight, and a worker
\* records at most one attempt after the stop signal.
WorkerInFlight(w) == worker_pc[w] \in {"queued", "writing", "returned"}

RecordsOf(w) == Cardinality({i \in Indexes : RecordedBy(i) = w})

C22_Accounted ==
    \A w \in WorkerIds :
        RecordsOf(w) = started[w] - (IF WorkerInFlight(w) THEN 1 ELSE 0)

C22_Step ==
    ~test_running =>
        /\ started' = started
        /\ \A w \in WorkerIds :
             /\ WorkerInFlight(w) =>
                  worker_pc'[w] \in {"queued", "writing", "returned", "sleeping"}
             /\ (worker_pc[w] = "returned" /\ worker_pc'[w] # "returned") =>
                  /\ worker_pc'[w] = "sleeping"
                  /\ Appended
                  /\ attempt_ids'[Len(attempt_ids')] = <<w, started[w]>>
             /\ worker_pc[w] = "sleeping" =>
                  worker_pc'[w] \in {"sleeping", "stopped"}
             /\ worker_pc[w] = "stopped" => worker_pc'[w] = "stopped"

C22_StopBetweenIterations == []C22_Accounted /\ [][C22_Step]_vars

\* Both workers had a write in flight when the flag was set; one of them
\* has recorded its attempt since and waits in its sleep, the other one's
\* write is still pending.
C22_Witness ==
    /\ ~test_running
    /\ main_pc = "gathering"
    /\ in_flight_at_stop = 2
    /\ \E w, v \in WorkerIds :
         /\ worker_pc[w] = "sleeping"
         /\ RecordsOf(w) = started[w]
         /\ worker_pc[v] = "writing"

\* -------------------------------------------------------------------
\* C23: in every state first_failure_time is the timestamp of the first
\* failed record of the log, which no failed record precedes in time, and
\* is unset iff the log has no failed record; first_recovery_time is the
\* timestamp of the first successful record that follows that failed
\* record in the log, and is unset iff there is none.
C23_DetectorMatchesLog ==
    /\ \A i \in Indexes : write_attempts[i].timestamp # None
    /\ first_failure_time =
         IF FailedIndexes = {} THEN None
         ELSE write_attempts[FirstFailedIndex].timestamp
    /\ \A i \in FailedIndexes :
         first_failure_time <= write_attempts[i].timestamp
    /\ first_recovery_time =
         IF RecoveryIndexes = {} THEN None
         ELSE write_attempts[FirstRecoveryIndex].timestamp

\* A failure was followed by two successes at later clock readings: the
\* recovery time is that of the first of them.
C23_Witness ==
    /\ Len(write_attempts) = 3
    /\ FailedIndexes = {1}
    /\ first_failure_time = write_attempts[1].timestamp
    /\ first_recovery_time = write_attempts[2].timestamp
    /\ write_attempts[2].timestamp < write_attempts[3].timestamp

\* -------------------------------------------------------------------
\* C24: a record has an error message if and only if its success flag is
\* false: a successful attempt is recorded with error None, a failed one
\* with the string made from the exception (which may be the empty
\* string), and the worker hands the result to the recorder as it got it.
C24_ErrorOfRecord ==
    \A i \in Indexes :
        /\ write_attempts[i].success <=> write_attempts[i].error = NoError
        /\ ~write_attempts[i].success => write_attempts[i].error \in ErrorMessages

C24_ErrorOfResult ==
    \A w \in WorkerIds :
        worker_pc[w] = "returned" =>
            (worker_result[w].success <=> worker_result[w].error = NoError)

C24_RecordedAsReturned ==
    \A w \in WorkerIds :
        (worker_pc[w] = "returned" /\ worker_pc'[w] = "sleeping") =>
            /\ LastAppended.success = worker_result[w].success
            /\ LastAppended.error = worker_result[w].error

C24_ErrorIffFailed ==
    /\ []C24_ErrorOfRecord
    /\ []C24_ErrorOfResult
    /\ [][C24_RecordedAsReturned]_vars

\* A success, a failure whose exception has a message and a failure whose
\* exception has an empty one are in the log.
C24_Witness ==
    /\ Len(write_attempts) = 3
    /\ \E i, j, k \in Indexes :
         /\ write_attempts[i].success /\ write_attempts[i].error = NoError
         /\ ~write_attempts[j].success
         /\ write_attempts[j].error = "connection refused"
         /\ ~write_attempts[k].success /\ write_attempts[k].error = ""

\* -------------------------------------------------------------------
\* C25: the delay between a worker's attempts is W / R seconds for W
\* workers and a target rate of R writes per second; it is set when the
\* tester is built and never changes; a worker starts its next write at a
\* clock reading that is at least that much later than the reading at
\* which it recorded the previous one; so a worker has started at most
\* 1 + T * R / W attempts, and all workers together at most W + T * R,
\* when the run is T seconds old.
C25_Delay ==
    main_pc \notin {"init", "ZeroDivisionError"} =>
        /\ write_delay.num > 0
        /\ write_delay.den > 0
        /\ write_delay.num * WRITES_PER_SECOND = write_delay.den * num_workers

C25_Rate ==
    start_time # None =>
        /\ \A w \in WorkerIds :
             started[w] >= 1 =>
                (started[w] - 1) * num_workers
                    <= (now - start_time) * WRITES_PER_SECOND
        /\ TotalStarted <= num_workers + (now - start_time) * WRITES_PER_SECOND

C25_Step ==
    /\ write_delay # NoDelay => write_delay' = write_delay
    /\ \A w \in WorkerIds :
         (worker_pc[w] = "sleeping" /\ worker_pc'[w] \in {"queued", "writing"}) =>
             /\ worker_wake[w] # None
             /\ (now - worker_wake[w]) * WRITES_PER_SECOND >= num_workers

C25_DelayBetweenAttempts ==
    []C25_Delay /\ []C25_Rate /\ [][C25_Step]_vars

\* Of two workers, one has slept twice and is in its third write.
C25_Witness ==
    /\ num_workers = 2
    /\ write_delay = Ratio(2, WRITES_PER_SECOND)
    /\ \E w \in WorkerIds :
         /\ started[w] = 3
         /\ worker_pc[w] = "writing"
    /\ now - start_time >= 2 * TickSeconds

\* -------------------------------------------------------------------
\* C26: the mean and the median of the summary are those of the durations
\* of the successful records alone, whatever the durations of the failed
\* ones, and both are absent when no record is successful.  (Both are in
\* hundredths of a microsecond, the mean rounded down.)
SuccessfulIndexes == {i \in Indexes : write_attempts[i].success}

RECURSIVE DurationSum(_)
DurationSum(S) ==
    IF S = {} THEN 0
    ELSE LET i == CHOOSE k \in S : TRUE
         IN write_attempts[i].duration_ms + DurationSum(S \ {i})

\* The k-th smallest duration among the successful records.
KthSuccessfulDuration(k) ==
    CHOOSE v \in {write_attempts[i].duration_ms : i \in SuccessfulIndexes} :
        /\ Cardinality({i \in SuccessfulIndexes :
                           write_attempts[i].duration_ms < v}) < k
        /\ Cardinality({i \in SuccessfulIndexes :
                           write_attempts[i].duration_ms <= v}) >= k

C26_MeanMedianOfSuccesses ==
    main_pc = "done" =>
        LET n == Cardinality(SuccessfulIndexes)
            total == DurationSum(SuccessfulIndexes)
        IN IF n = 0
           THEN /\ summary.avg_write_duration_ms = None
                /\ summary.median_write_duration_ms = None
           ELSE /\ summary.avg_write_duration_ms * n <= total * 100
                /\ (summary.avg_write_duration_ms + 1) * n > total * 100
                /\ summary.median_write_duration_ms =
                     IF n % 2 = 1
                     THEN KthSuccessfulDuration((n + 1) \div 2) * 100
                     ELSE (KthSuccessfulDuration(n \div 2)
                             + KthSuccessfulDuration(n \div 2 + 1)) * 50

\* A failed attempt of 2.496 ms and successful ones of 1.004 ms and
\* 2.496 ms: mean and median are 1.75 ms.
C26_Witness ==
    /\ main_pc = "done"
    /\ Len(write_attempts) = 3
    /\ ~write_attempts[1].success /\ write_attempts[1].duration_ms = 2496
    /\ write_attempts[2].success /\ write_attempts[2].duration_ms = 1004
    /\ write_attempts[3].success /\ write_attempts[3].duration_ms = 2496
    /\ summary.avg_write_duration_ms = 175000
    /\ summary.median_write_duration_ms = 175000

\* -------------------------------------------------------------------
\* C27: cruise_ids is written by one step only, the setup at the start of
\* run_load_test, when no worker or reporter task exists yet; from then on
\* no step changes it.
C27_Step ==
    /\ cruise_ids' # cruise_ids =>
         /\ main_pc = "constructed"
         /\ main_pc' = "sleeping"
         /\ cruise_ids = {}
         /\ \A w \in WorkerIds : worker_pc[w] = "absent"
         /\ monitor_pc = "absent"
         /\ write_attempts = <<>>
    /\ main_pc \notin {"init", "constructed"} => UNCHANGED cruise_ids

C27_KeyPoolReadOnly == [][C27_Step]_vars

\* The pool is as the setup left it after two workers have written, the
\* reporter has printed a line and the summary and the export are done.
C27_Witness ==
    /\ cruise_ids = 1 .. MaxCruises
    /\ main_pc = "done"
    /\ export_status = "written"
    /\ progress # NoProgress
    /\ \A w \in WorkerIds : started[w] >= 1
    /\ \A i \in Indexes : write_attempts[i].success

\* -------------------------------------------------------------------
\* C28: a record carries the clock reading of the step that appends it,
\* so with a clock that never goes back the timestamps of the log never
\* decrease in log order; hence first_failure_time <= first_recovery_time
\* whenever both are set, and the failover duration, where there is one,
\* is never negative.
C28_Ordered ==
    /\ \A i, j \in Indexes :
         i < j => write_attempts[i].timestamp <= write_attempts[j].timestamp
    /\ \A i \in Indexes : write_attempts[i].timestamp <= now
    /\ DurationPresent =>
         /\ first_failure_time <= first_recovery_time
         /\ get_failover_duration_seconds(first_failure_time,
                                          first_recovery_time) >= 0
    /\ (main_pc = "done" /\ DurationPresent) =>
         summary.failover_duration_seconds >= 0

C28_Step ==
    /\ now' >= now
    /\ Appended => LastAppended.timestamp = now

C28_TimestampsOrdered == []C28_Ordered /\ [][C28_Step]_vars

\* Two failures recorded at one clock reading and a recovery at a later
\* one; the summary has the positive duration.
C28_Witness ==
    /\ main_pc = "done"
    /\ Len(write_attempts) = 3
    /\ FailedIndexes = {1, 2}
    /\ write_attempts[1].timestamp = write_attempts[2].timestamp
    /\ write_attempts[2].timestamp < write_attempts[3].timestamp
    /\ summary.failover_duration_seconds > 0

\* -------------------------------------------------------------------
\* C29: a worker has at most one write in flight; a write that runs has
\* one session open, its own, and the session is closed when the write
\* returns, with a result or with a failure; so the open sessions are
\* never more than the workers, which is less than the capacity of the
\* connection pool, and none is open once every worker has exited.
C29_Sessions ==
    /\ \A w \in WorkerIds :
         started[w] - RecordsOf(w) = (IF WorkerInFlight(w) THEN 1 ELSE 0)
    /\ open_sessions =
         Cardinality({w \in WorkerIds : worker_pc[w] = "writing"})
    /\ open_sessions <= num_workers
    /\ num_workers < PoolCapacity(num_workers)
    /\ open_sessions < PoolCapacity(num_workers)
    /\ (\A w \in WorkerIds : worker_pc[w] \in {"absent", "stopped"})
         => open_sessions = 0

C29_Step ==
    \A w \in WorkerIds :
        (worker_pc[w] = "writing" /\ worker_pc'[w] = "returned") =>
            open_sessions' <= open_sessions

C29_SessionsBounded == []C29_Sessions /\ [][C29_Step]_vars

\* After a failed write was recorded, two workers have a write running,
\* each with its session.
C29_Witness ==
    /\ num_workers = 2
    /\ open_sessions = 2
    /\ Len(write_attempts) = 1
    /\ ~write_attempts[1].success

\* ===================================================================
\* scripts/fix-indentation.py.  A line is the sequence of its characters
\* up to the line terminator; the text of the Main header and the text
\* of the end marker are one symbol each.
MaxLines == 3
MaxLineLen == 2
MAIN_INDENT == 4
BRACE_INDENT == 4

MainHeader == "async Task<int> Main()"
EndOfMain == "} // End of Main()"
Chars == {" ", "{", "}", "x", MainHeader, EndOfMain}
Lines == UNION {[1 .. n -> Chars] : n \in 0 .. MaxLineLen}
Files == UNION {[1 .. n -> Lines] : n \in 0 .. MaxLines}

Max(a, b) == IF a >= b THEN a ELSE b

\* str.lstrip(): the line without its leading whitespace.
RECURSIVE lstrip(_)
lstrip(line) ==
    IF line = <<>> THEN <<>>
    ELSE IF Head(line) = " " THEN lstrip(Tail(line))
    ELSE line

\* ' ' * n
Spaces(n) == [i \in 1 .. n |-> " "]

\* re.match(r'^async Task<int> Main\(\)', stripped), line 25.
MatchesMainHeader(stripped) ==
    stripped # <<>> /\ Head(stripped) = MainHeader

\* stripped.startswith('} // End of Main()'), line 32.
StartsWithEndOfMain(stripped) ==
    stripped # <<>> /\ Head(stripped) = EndOfMain

\* stripped.startswith('}'), lines 56 and 64.
StartsWithCloseBrace(stripped) ==
    stripped # <<>> /\ Head(stripped) \in {"}", EndOfMain}

\* line.count('{') and line.count('}'), lines 49-50; the end marker text
\* holds one closing brace.
open_braces(line) == Cardinality({i \in DOMAIN line : line[i] = "{"})
close_braces(line) ==
    Cardinality({i \in DOMAIN line : line[i] \in {"}", EndOfMain}})

\* Lines 56-57: a line that starts with a closing brace steps back first.
IndentBefore(stack, stripped) ==
    IF StartsWithCloseBrace(stripped)
    THEN Max(0, stack - BRACE_INDENT)
    ELSE stack

\* Mutant: the counter is not clamped at line 67.
IndentAfter_Unclamped(stack, line) ==
    LET opened == IF StartsWithCloseBrace(lstrip(line)) THEN stack
                  ELSE stack + open_braces(line) * BRACE_INDENT
    IN opened - close_braces(line) * BRACE_INDENT

\* Lines 64-67: the counter for the next line.
IndentAfter(stack, line) ==
    LET opened == IF StartsWithCloseBrace(lstrip(line)) THEN stack
                  ELSE stack + open_braces(line) * BRACE_INDENT
    IN Max(0, opened - close_braces(line) * BRACE_INDENT)

\* Lines 60-61.
Reindented(stack, stripped) == Spaces(MAIN_INDENT + stack) \o stripped

CurrentLine == lines[line_index + 1]

\* Lines 25-29: the header of Main.
MainStart ==
    /\ line_index < Len(lines)
    /\ MatchesMainHeader(lstrip(CurrentLine))
    /\ inside_main' = TRUE
    /\ indent_stack' = 0
    /\ output' = Append(output, CurrentLine)
    /\ line_index' = line_index + 1
    /\ UNCHANGED <<lines, tester_vars>>

\* Lines 32-35: the end marker of Main.
MainEnd ==
    /\ line_index < Len(lines)
    /\ ~MatchesMainHeader(lstrip(CurrentLine))
    /\ StartsWithEndOfMain(lstrip(CurrentLine))
    /\ inside_main' = FALSE
    /\ output' = Append(output, CurrentLine)
    /\ line_index' = line_index + 1
    /\ UNCHANGED <<lines, indent_stack, tester_vars>>

\* Lines 38-40: a line before or after Main.
KeepOutside ==
    /\ line_index < Len(lines)
    /\ ~MatchesMainHeader(lstrip(CurrentLine))
    /\ ~StartsWithEndOfMain(lstrip(CurrentLine))
    /\ ~inside_main
    /\ output' = Append(output, CurrentLine)
    /\ line_index' = line_index + 1
    /\ UNCHANGED <<lines, inside_main, indent_stack, tester_vars>>

\* Lines 44-46: an empty line inside Main.
KeepEmpty ==
    /\ line_index < Len(lines)
    /\ ~MatchesMainHeader(lstrip(CurrentLine))
    /\ ~StartsWithEndOfMain(lstrip(CurrentLine))
    /\ inside_main
    /\ lstrip(CurrentLine) = <<>>
    /\ output' = Append(output, CurrentLine)
    /\ line_index' = line_index + 1
    /\ UNCHANGED <<lines, inside_main, indent_stack, tester_vars>>

\* Lines 49-67: a line of Main is written with the indentation of its
\* nesting depth.
Reindent ==
    /\ line_index < Len(lines)
    /\ ~MatchesMainHeader(lstrip(CurrentLine))
    /\ ~StartsWithEndOfMain(lstrip(CurrentLine))
    /\ inside_main
    /\ lstrip(CurrentLine) # <<>>
    /\ LET stripped == lstrip(CurrentLine)
           reduced == IndentBefore(indent_stack, stripped)
       IN /\ output' = Append(output, Reindented(reduced, stripped))
          /\ indent_stack' = IndentAfter(reduced, CurrentLine)
    /\ line_index' = line_index + 1
    /\ UNCHANGED <<lines, inside_main, tester_vars>>

NextFixer == MainStart \/ MainEnd \/ KeepOutside \/ KeepEmpty \/ Reindent

\* Lines 9-18: the script was read; nothing is processed yet.
InitFixer ==
    /\ TesterState(1, Durations)
    /\ executor_threads = 1
    /\ lines \in Files
    /\ output = <<>>
    /\ line_index = 0
    /\ inside_main = FALSE
    /\ indent_stack = 0

SpecFixer == InitFixer /\ [][NextFixer]_vars

\* The input line i is a line of Main's body: the last marker line before
\* it is a Main header, and it is no marker line itself.
IsMarker(line) ==
    MatchesMainHeader(lstrip(line)) \/ StartsWithEndOfMain(lstrip(line))

InsideMain(i) ==
    /\ ~IsMarker(lines[i])
    /\ \E j \in 1 .. (i - 1) :
         /\ MatchesMainHeader(lstrip(lines[j]))
         /\ \A k \in (j + 1) .. (i - 1) : ~IsMarker(lines[k])

LeadingSpaces(line) == Len(line) - Len(lstrip(line))

\* -------------------------------------------------------------------
\* C30: the fixer appends one output line per input line, in order; a
\* line outside Main, the Main header and the end marker are appended
\* unchanged; a line inside Main keeps everything but its leading
\* whitespace; an empty line inside Main is unchanged; the indentation
\* counter is never negative, so a re-indented line starts with at
\* least 4 spaces.
C30_OneOutputPerInput ==
    /\ Len(output) = line_index
    /\ line_index <= Len(lines)
    /\ indent_stack >= 0
    /\ \A i \in 1 .. Len(output) :
         /\ lstrip(output[i]) = lstrip(lines[i])
         /\ ~InsideMain(i) => output[i] = lines[i]
         /\ (InsideMain(i) /\ lstrip(lines[i]) = <<>>) =>
               output[i] = lines[i]
         /\ (InsideMain(i) /\ lstrip(lines[i]) # <<>>) =>
               LeadingSpaces(output[i]) >= MAIN_INDENT

\* The header, an opening brace that is moved to column 4, and a
\* statement that is moved from column 1 to column 8.
C30_Witness ==
    /\ line_index = 3
    /\ lines = <<<<MainHeader>>, <<"{">>, <<" ", "x">>>>
    /\ output[1] = lines[1]
    /\ output[2] = Spaces(4) \o <<"{">>
    /\ output[3] = Spaces(8) \o <<"x">>

====
